---- MODULE Spec2Model ----
(***************************************************************************)
(* Package-repository resolution and content-set generation of cekit:     *)
(*   cekit/descriptor/packages.py  (Packages, Repository)                  *)
(*   cekit/generator/docker.py     (DockerGenerator)                       *)
(* A descriptor's backing store (self._descriptor, a Python dict) is a     *)
(* function whose DOMAIN is the set of keys present in the dict.           *)
(***************************************************************************)
EXTENDS Integers, Sequences, FiniteSets, TLC

VARIABLES
    repo,       \* Repository._descriptor, the backing store of the entity
    rpc,        \* "new" | "ok" (constructed) | "failed" (constructor raised)
    explicit,   \* a filename was supplied by the caller (input key or setter)
    dirExists,  \* os.path.exists(target_dir) on the build-context filesystem
    last,       \* the last Repository call: operation, argument, pre-state, outcome
    pkg,        \* Packages._descriptor, the backing store of the entity
    ppc,        \* "new" | "ok" (constructed) | "failed" (constructor raised)
    plast,      \* the last Packages call
    gen,        \* the last DockerGenerator._prepare_content_sets call
    arts,       \* self.image.all_artifacts of the running prepare_artifacts call
    apc,        \* "idle" | "loop" | "returned" | "raised"
    ai,         \* position of the for loop over the artifacts
    acopies,    \* the artifact.copy invocations made so far, in order
    afailed     \* position of the artifact whose copy raised, 0 when none did

rvars == <<repo, rpc, explicit, dirExists, last>>

pvars == <<pkg, ppc, plast>>

gvars == <<gen>>

avars == <<arts, apc, ai, acopies, afailed>>

vars == <<repo, rpc, explicit, dirExists, last, pkg, ppc, plast, gen, arts, apc, ai, acopies, afailed>>

----------------------------------------------------------------------------
\* Bounds of the model
MaxNameLen == 1

----------------------------------------------------------------------------
\* Python dict primitives on a backing store

Has(d, k) == k \in DOMAIN d

Put(d, k, v) == [x \in (DOMAIN d) \cup {k} |-> IF x = k THEN v ELSE d[x]]

Pop(d, k) == [x \in (DOMAIN d) \ {k} |-> d[x]]

EmptyDict == [x \in {} |-> "None"]

\* Python None in a slot that otherwise holds a string
None == "None"

\* Python None in a slot that otherwise holds a sequence of characters
NoneSeq == <<>>

\* Descriptor.get(k, default): the stored value, or the default when unset
Get(d, k, default) == IF k \in DOMAIN d THEN d[k] ELSE default

\* Descriptor.__init__: keeps the mapping it is given as the backing store
DescriptorInit(d) == d

\* Python truthiness of a url.repository value (None and '' are falsy)
Truthy(v) == v # None /\ v # ""

----------------------------------------------------------------------------
\* Value domains of the Repository schema

SourceKinds == {"id", "url", "rpm", "odcs"}

NameChars == {"a", " "}

Names == UNION {[1..n -> NameChars] : n \in 1..MaxNameLen}

ReservedName == <<"__name__">>

UrlOf(r) == [k \in {"repository"} |-> r]

UrlValues == {EmptyDict, UrlOf("http://r"), UrlOf(""), UrlOf(None)}

OdcsValue == [k \in {"pulp"} |-> "p1"]

ExplicitFilename == <<"x">>

KindValue(k, u) ==
    CASE k = "url" -> u
      [] k = "id" -> "i1"
      [] k = "rpm" -> "r1"
      [] k = "odcs" -> OdcsValue

\* a raw repository mapping of a descriptor: name, a set of source kinds,
\* and optionally filename, present, description
RepoMapping(n, ks, u, hasF, p, hasD) ==
    [k \in {"name"} \cup ks
           \cup (IF hasF THEN {"filename"} ELSE {})
           \cup (IF p # None THEN {"present"} ELSE {})
           \cup (IF hasD THEN {"description"} ELSE {}) |->
        CASE k = "name" -> n
          [] k = "filename" -> ExplicitFilename
          [] k = "present" -> (p = "True")
          [] k = "description" -> "d"
          [] OTHER -> KindValue(k, u)]

\* config.get('repositories'): the externally configured name -> URL table
Configs == {EmptyDict,
            [n \in {<<"a">>} |-> "http://cfg"],
            [n \in {<<"a">>, ReservedName} |-> "http://cfg"],
            [n \in {ReservedName} |-> "cfg"]}

----------------------------------------------------------------------------
\* Outcomes of a call

Returned == [exc |-> "none", msg |-> "", ename |-> <<>>]

Raised(exc, msg, ename) == [exc |-> exc, msg |-> msg, ename |-> ename]

----------------------------------------------------------------------------
\* Repository

\* '%s.repo' % name.replace(' ', '_')
ReplaceSpaces(s) == [i \in 1..Len(s) |-> IF s[i] = " " THEN "_" ELSE s[i]]

DefaultFilename(name) == ReplaceSpaces(name) \o <<".repo">>

Xor(a, b) == a # b

\* ('url' in d) ^ ('odcs' in d) ^ ('id' in d) ^ ('rpm' in d)
OneSourceKind(d) == Xor(Xor(Xor(Has(d, "url"), Has(d, "odcs")), Has(d, "id")), Has(d, "rpm"))

\* Repository._get_repo_url: [exc, url]; viewKeys tells whether keys() is a
\* view without remove() (Python 3) or a list (Python 2)
GetRepoUrl(name, cfg, viewKeys) ==
    IF ReservedName \in DOMAIN cfg /\ viewKeys
    THEN [exc |-> "AttributeError", url |-> None]
    ELSE IF name \notin DOMAIN cfg
         THEN [exc |-> "none", url |-> None]
         ELSE [exc |-> "none", url |-> cfg[name]]

\* Repository._create_repo_object, given the looked-up url
CreateRepoObject(name, url) ==
    [k \in {"name", "url"} |-> IF k = "name" THEN name ELSE UrlOf(url)]

\* Repository.__init__ after the legacy conversion: [res, store]
RepositoryFromMapping(descriptor) ==
    LET d1 == IF ~Has(descriptor, "filename")
              THEN Put(descriptor, "filename", DefaultFilename(descriptor["name"]))
              ELSE descriptor
    IN IF ~OneSourceKind(d1)
       THEN [res |-> Raised("CekitError", "invalid", d1["name"]), store |-> EmptyDict]
       ELSE LET d2 == IF ~Has(d1, "url") THEN Put(d1, "url", EmptyDict) ELSE d1
                d3 == DescriptorInit(d2)
                d4 == IF ~Has(d3, "present") THEN Put(d3, "present", TRUE) ELSE d3
            IN [res |-> Returned, store |-> d4]

\* a bare repository name of a descriptor (the legacy form): a str, kept
\* apart from the mappings by its single slot
BareName(n) == [k \in {"str"} |-> n]

\* isinstance(descriptor, dict)
IsDict(descriptor) == ~Has(descriptor, "str")

\* Repository.__init__ on any descriptor entry (a mapping or a bare name)
RepositoryNew(descriptor, cfg, viewKeys) ==
    IF IsDict(descriptor)
    THEN RepositoryFromMapping(descriptor)
    ELSE LET u == GetRepoUrl(descriptor["str"], cfg, viewKeys)
         IN IF u.exc # "none"
            THEN [res |-> Raised(u.exc, "remove", <<>>), store |-> EmptyDict]
            ELSE RepositoryFromMapping(CreateRepoObject(descriptor["str"], u.url))

NameSetter(d, v) == Put(d, "name", v)

DescriptionSetter(d, v) == Put(d, "description", v)

PresentSetter(d, v) == Put(d, "present", v)

\* an id setter that forgets to unset filename
IdSetterKeepsFilename(d, v) == Pop(Pop(Pop(Put(d, "id", v), "url"), "rpm"), "odcs")

IdSetter(d, v) == Pop(Pop(Pop(Pop(Put(d, "id", v), "url"), "rpm"), "odcs"), "filename")

UrlSetter(d, v) == Pop(Pop(Pop(Pop(Put(d, "url", v), "id"), "rpm"), "odcs"), "filename")

RpmSetter(d, v) == Pop(Pop(Pop(Pop(Put(d, "rpm", v), "id"), "url"), "odcs"), "filename")

OdcsSetter(d, v) == Pop(Pop(Pop(Pop(Put(d, "odcs", v), "id"), "url"), "rpm"), "filename")

FilenameSetter(d, v) == Pop(Pop(Pop(Pop(Put(d, "filename", v), "id"), "url"), "rpm"), "odcs")

\* the filename property: self.get('filename')
FilenameGetter(d) == Get(d, "filename", NoneSeq)

\* the name property: self.get('name')
NameGetter(d) == Get(d, "name", NoneSeq)

TargetDir == "target"

\* os.path.join(dir, file): an absolute second component wins
OsPathJoin(dir, file) == IF file[1] = "/" THEN file ELSE <<dir>> \o file

\* Repository.fetch: [res, mkdir, copied]; copyOk is the outcome of the
\* resource-copy collaborator, consulted only when the copy is invoked
FetchOutcome(d, exists, copyOk) ==
    IF ~Has(d, "url")
    THEN [res |-> Raised("KeyError", "url", <<>>), mkdir |-> FALSE, copied |-> <<>>]
    ELSE IF ~Has(d["url"], "repository")
    THEN [res |-> Raised("KeyError", "repository", <<>>), mkdir |-> FALSE, copied |-> <<>>]
    ELSE IF ~Truthy(d["url"]["repository"])
    THEN [res |-> Raised("CekitError", "not defined", NameGetter(d)),
          mkdir |-> FALSE, copied |-> <<>>]
    ELSE IF ~Has(d, "filename")
    THEN [res |-> Raised("KeyError", "filename", <<>>), mkdir |-> ~exists, copied |-> <<>>]
    ELSE [res |-> IF copyOk THEN Returned ELSE Raised("CekitError", "copy", <<>>),
          mkdir |-> ~exists,
          copied |-> <<[url |-> d["url"]["repository"],
                        dest |-> OsPathJoin(TargetDir, d["filename"])]>>]

----------------------------------------------------------------------------
\* The record of a Repository call

\* the part of a store that the source-kind setters must leave alone
Frame(d) == [k \in (DOMAIN d) \cap {"name", "description", "present"} |-> d[k]]

Call(op, arg, pre, res, mkdir, copied, before) ==
    [op |-> op, arg |-> arg, pre |-> Frame(pre), preKeys |-> DOMAIN pre, res |-> res,
     mkdir |-> mkdir, copied |-> copied, dirBefore |-> before]

NoCall == Call("none", None, EmptyDict, Returned, FALSE, <<>>, FALSE)

RepoIdle ==
    /\ repo = EmptyDict
    /\ rpc = "new"
    /\ explicit = FALSE
    /\ last = NoCall

Construct(descriptor, cfg, viewKeys) ==
    /\ LET r == RepositoryNew(descriptor, cfg, viewKeys)
       IN /\ repo' = r.store
          /\ rpc' = IF r.res.exc = "none" THEN "ok" ELSE "failed"
          /\ last' = Call("init", descriptor, EmptyDict, r.res, FALSE, <<>>, dirExists)
    /\ explicit' = Has(descriptor, "filename")
    /\ UNCHANGED <<dirExists, pvars, gvars, avars>>

ConstructFromMapping ==
    /\ rpc = "new"
    /\ \E n \in Names, ks \in SUBSET SourceKinds, u \in UrlValues,
          hasF \in BOOLEAN, p \in {None, "True", "False"}, hasD \in BOOLEAN :
        Construct(RepoMapping(n, ks, u, hasF, p, hasD), EmptyDict, FALSE)

ConstructFromName ==
    /\ rpc = "new"
    /\ \E n \in Names, cfg \in Configs, viewKeys \in BOOLEAN :
        Construct(BareName(n), cfg, viewKeys)

Setter(op, v, post) ==
    /\ rpc = "ok"
    /\ repo' = post
    /\ last' = Call(op, v, repo, Returned, FALSE, <<>>, dirExists)
    /\ UNCHANGED <<rpc, dirExists, pvars, gvars, avars>>

SetName == \E v \in Names : Setter("name", v, NameSetter(repo, v)) /\ UNCHANGED explicit

SetDescription ==
    \E v \in {"d"} : Setter("description", v, DescriptionSetter(repo, v)) /\ UNCHANGED explicit

SetPresent == \E v \in BOOLEAN : Setter("present", v, PresentSetter(repo, v)) /\ UNCHANGED explicit

SetId == \E v \in {"i1", "i2"} : Setter("id", v, IdSetter(repo, v)) /\ UNCHANGED explicit

SetUrl == \E v \in UrlValues : Setter("url", v, UrlSetter(repo, v)) /\ UNCHANGED explicit

SetRpm == \E v \in {"r1"} : Setter("rpm", v, RpmSetter(repo, v)) /\ UNCHANGED explicit

SetOdcs == \E v \in {OdcsValue} : Setter("odcs", v, OdcsSetter(repo, v)) /\ UNCHANGED explicit

SetFilename ==
    \E v \in {ExplicitFilename} :
        Setter("filename", v, FilenameSetter(repo, v)) /\ explicit' = TRUE

Fetch ==
    /\ rpc = "ok"
    /\ \E copyOk \in BOOLEAN :
        LET f == FetchOutcome(repo, dirExists, copyOk)
        IN /\ dirExists' = (dirExists \/ f.mkdir)
           /\ last' = Call("fetch", TargetDir, repo, f.res, f.mkdir, f.copied, dirExists)
    /\ UNCHANGED <<repo, rpc, explicit, pvars, gvars, avars>>

RepoNext ==
    \/ ConstructFromMapping
    \/ ConstructFromName
    \/ SetName
    \/ SetDescription
    \/ SetPresent
    \/ SetId
    \/ SetUrl
    \/ SetRpm
    \/ SetOdcs
    \/ SetFilename
    \/ Fetch

----------------------------------------------------------------------------
\* Packages

MaxRepos == 2

DescriptorPath == "dir"

\* the content_sets_file values of a descriptor: a relative and an absolute path
ContentSetsFiles == {<<"cs.yaml">>, <<"/", "abs.yaml">>}

FileStates == {"missing", "malformed", "cs1", "cs2"}

\* the filesystem, as far as Packages reads it: each path is missing, holds
\* text that is no YAML, or holds a YAML content-set mapping
FileSystems == [{OsPathJoin(DescriptorPath, f) : f \in ContentSetsFiles} -> FileStates]

\* os.path.exists
PathExists(fs, path) == fs[path] # "missing"

CS1 == [a \in {"x86_64"} |-> <<"repoA", "repoB">>]

CS2 == [a \in {"x86_64", "arm"} |-> <<"repoC">>]

\* yaml.safe_load of a file: [exc, value]
YamlLoadFile(text) ==
    IF text = "cs1" THEN [exc |-> "none", value |-> CS1]
    ELSE IF text = "cs2" THEN [exc |-> "none", value |-> CS2]
    ELSE [exc |-> "YAMLError", value |-> None]

\* the entries a descriptor may list under repositories
RepoEntries ==
    {RepoMapping(<<"a">>, {"url"}, UrlOf("http://r"), FALSE, None, FALSE),
     RepoMapping(<<"a">>, {}, EmptyDict, FALSE, None, FALSE),
     BareName(<<"a">>)}

RepoLists == UNION {[1..n -> RepoEntries] : n \in 0..MaxRepos}

\* a raw packages mapping: cs and file are None when the key is absent
PackagesMapping(cs, file, repos, hasRepos) ==
    [k \in (IF cs # None THEN {"content_sets"} ELSE {})
           \cup (IF file # NoneSeq THEN {"content_sets_file"} ELSE {})
           \cup (IF hasRepos THEN {"repositories"} ELSE {}) |->
        CASE k = "content_sets" -> (IF cs = "cs2" THEN CS2 ELSE CS1)
          [] k = "content_sets_file" -> file
          [] k = "repositories" -> repos]

Min(S) == CHOOSE x \in S : \A y \in S : x <= y

\* Packages._prepare: Repository(x) for each entry in order; the first
\* constructor that raises ends the comprehension. [res, store, invoked]
Prepare(d, cfg, viewKeys) ==
    LET entries == Get(d, "repositories", <<>>)
        built == [i \in 1..Len(entries) |->
                    RepositoryNew(entries[i], cfg, viewKeys)]
        bad == {i \in 1..Len(entries) : built[i].res.exc # "none"}
    IN IF bad = {}
       THEN [res |-> Returned,
             store |-> Put(d, "repositories", [i \in 1..Len(entries) |-> built[i].store]),
             invoked |-> Len(entries)]
       ELSE [res |-> built[Min(bad)].res, store |-> EmptyDict, invoked |-> Min(bad)]

\* a loader that forgets the del of content_sets_file
LoadContentSetsKeepsFile(d, content) == Put(d, "content_sets", content)

\* descriptor['content_sets'] = yaml.safe_load(file_); del descriptor['content_sets_file']
LoadContentSets(d, content) == Pop(Put(d, "content_sets", content), "content_sets_file")

\* Packages.__init__: [res, store, invoked]
PackagesNew(descriptor, fs, cfg, viewKeys) ==
    LET d0 == DescriptorInit(descriptor)
        failed(res) == [res |-> res, store |-> EmptyDict, invoked |-> 0]
    IN IF Has(descriptor, "content_sets_file") /\ Has(descriptor, "content_sets")
       THEN failed(Raised("CekitError", "together", <<>>))
       ELSE IF Has(descriptor, "content_sets_file")
       THEN LET path == OsPathJoin(DescriptorPath, descriptor["content_sets_file"])
            IN IF ~PathExists(fs, path)
               THEN failed(Raised("CekitError", "file not found", path))
               ELSE LET y == YamlLoadFile(fs[path])
                    IN IF y.exc # "none"
                       THEN failed(Raised(y.exc, "load", <<>>))
                       ELSE Prepare(LoadContentSets(d0, y.value), cfg, viewKeys)
       ELSE Prepare(d0, cfg, viewKeys)

ContentSetsSetter(d, v) == Pop(Put(d, "content_sets", v), "content_sets_file")

\* a content_sets_file setter that forgets to drop content_sets
ContentSetsFileSetterKeepsBoth(d, v) == Put(d, "content_sets_file", v)

ContentSetsFileSetter(d, v) == Pop(Put(d, "content_sets_file", v), "content_sets")

PCall(op, arg, fs, pre, res, invoked) ==
    [op |-> op, arg |-> arg, fs |-> fs, pre |-> pre, res |-> res, invoked |-> invoked]

NoFiles == [p \in {} |-> "missing"]

PkgIdle ==
    /\ pkg = EmptyDict
    /\ ppc = "new"
    /\ plast = PCall("none", EmptyDict, NoFiles, {}, Returned, 0)

PackagesConstruct ==
    /\ ppc = "new"
    /\ \E cs \in {None, "cs1", "cs2"}, file \in {NoneSeq} \cup ContentSetsFiles,
          repos \in RepoLists, fs \in FileSystems, cfg \in Configs, viewKeys \in BOOLEAN :
        LET descriptor == PackagesMapping(cs, file, repos, Len(repos) > 0)
            r == PackagesNew(descriptor, fs, cfg, viewKeys)
        IN /\ pkg' = r.store
           /\ ppc' = IF r.res.exc = "none" THEN "ok" ELSE "failed"
           /\ plast' = PCall("init", descriptor, fs, {}, r.res, r.invoked)
    /\ UNCHANGED <<rvars, gvars, avars>>

PSetter(op, v, post) ==
    /\ pkg' = post
    /\ plast' = PCall(op, v, NoFiles, DOMAIN pkg \cap {"content_sets", "content_sets_file"},
                      Returned, 0)
    /\ UNCHANGED <<ppc, rvars, gvars, avars>>

SetContentSets ==
    /\ ppc = "ok"
    /\ \E v \in {CS1, CS2} : PSetter("content_sets", v, ContentSetsSetter(pkg, v))

SetContentSetsFile ==
    /\ ppc = "ok"
    /\ \E v \in ContentSetsFiles :
        PSetter("content_sets_file", v, ContentSetsFileSetter(pkg, v))

PkgNext ==
    \/ PackagesConstruct
    \/ SetContentSets
    \/ SetContentSetsFile

----------------------------------------------------------------------------
\* DockerGenerator._prepare_content_sets

MaxLines == 3

Archs == {"x86_64", "arm"}

\* a line of the broker's report: free text, or one entry of the printed
\* mapping; uq tells that the entry is written with the legacy u'..' quoting
Line(key, val, uq) == [key |-> key, val |-> val, uq |-> uq]

Lines == {Line("info", "", FALSE),
          Line("state", 2, FALSE),
          Line("state", 4, FALSE),
          Line("state_reason", "failed", FALSE),
          Line("state_reason", "failed", TRUE),
          Line("result_repofile", "http://x/y.repo", FALSE),
          Line("result_repofile", "http://x/y.repo", TRUE)}

Outputs == UNION {[1..n -> Lines] : n \in 0..MaxLines}

\* what subprocess.check_output(cmd).decode() does: the executable is
\* missing, exits non-zero, prints bytes that do not decode, or prints a report
Brokers ==
    {[kind |-> k, output |-> <<>>, captured |-> c] :
        k \in {"OSError", "UnicodeDecodeError"}, c \in {""}}
    \cup {[kind |-> "CalledProcessError", output |-> <<>>, captured |-> "boom"]}
    \cup {[kind |-> "ok", output |-> o, captured |-> ""] : o \in Outputs}

\* ' '.join(names)
JoinSpace(names) ==
    [i \in 1..(IF Len(names) = 0 THEN 0 ELSE 2 * Len(names) - 1) |->
        IF i % 2 = 1 THEN names[(i + 1) \div 2] ELSE " "]

\* cmd = ['odcs'] (+ ['--redhat']) + ['create', 'pulp', repos]
BrokerCmd(redhat, repos) ==
    <<"odcs">> \o (IF redhat THEN <<"--redhat">> ELSE <<>>) \o <<"create", "pulp", repos>>

\* output.replace(" u'", " '").replace(' u"', ' "') on one line
NormalizeLine(l) == [l EXCEPT !.uq = FALSE]

\* .split('\n')[1:], after the replacement: the first line is dropped
NormalizeOutput(output) ==
    IF Len(output) = 0 THEN <<>>
    ELSE [i \in 1..(Len(output) - 1) |-> NormalizeLine(output[i + 1])]

\* yaml.safe_load of the normalized text: a mapping only when every line is
\* an entry; an entry still quoted u'..' is stored under the quoted key
YamlLoadReport(lines) ==
    [mapping |-> Len(lines) > 0 /\ \A i \in 1..Len(lines) : lines[i].key # "info",
     lines |-> lines]

HasField(y, key) ==
    /\ y.mapping
    /\ \E i \in 1..Len(y.lines) : y.lines[i].key = key /\ ~y.lines[i].uq

\* a duplicated key keeps its last value
Field(y, key) ==
    LET at == {i \in 1..Len(y.lines) : y.lines[i].key = key /\ ~y.lines[i].uq}
    IN y.lines[CHOOSE i \in at : \A j \in at : j <= i].val

\* a state test that takes every state from 2 upwards for success
StateAcceptedFromTwo(state) == state >= 2

\* odcs_result['state'] != 2 guards the raise
StateAccepted(state) == state = 2

GResult(exc, msg, detail, ret) == [exc |-> exc, msg |-> msg, detail |-> detail, ret |-> ret]

NoReturn == [kind |-> "none", value |-> ""]

ReturnFalse == [kind |-> "bool", value |-> "False"]

ReturnStr(v) == [kind |-> "str", value |-> v]

GenericError == GResult("CekitError", "Cannot create content set!", "wrapped", NoReturn)

\* the try block after the command has run, and its except clauses
HandleBroker(broker) ==
    CASE broker.kind = "OSError" ->
            GResult("CekitError", "ODCS is not installed", "odcs-client", NoReturn)
      [] broker.kind = "CalledProcessError" ->
            GResult("CekitError", "Cannot create content set", broker.captured, NoReturn)
      [] broker.kind = "UnicodeDecodeError" -> GenericError
      [] broker.kind = "ok" ->
            LET y == YamlLoadReport(NormalizeOutput(broker.output))
            IN IF ~HasField(y, "state") THEN GenericError
               ELSE IF ~StateAccepted(Field(y, "state"))
               THEN IF ~HasField(y, "state_reason") THEN GenericError
                    ELSE GResult("CekitError", "Cannot create content set",
                                 Field(y, "state_reason"), NoReturn)
               ELSE IF ~HasField(y, "result_repofile") THEN GenericError
               ELSE GResult("none", "", "", ReturnStr(Field(y, "result_repofile")))

\* a generator that looks for the architecture only after running the broker
PrepareContentSetsLateArchCheck(gate, arch, content_sets, redhat, broker) ==
    IF ~gate
    THEN [res |-> GResult("none", "", "", ReturnFalse), invoked |-> <<>>]
    ELSE [res |-> IF arch \notin DOMAIN content_sets
                  THEN GResult("CekitError", "no content sets for platform", "", NoReturn)
                  ELSE HandleBroker(broker),
          invoked |-> <<BrokerCmd(redhat, IF arch \notin DOMAIN content_sets THEN <<>>
                                          ELSE JoinSpace(content_sets[arch]))>>]

\* _prepare_content_sets: [res, invoked], invoked the commands handed to
\* subprocess.check_output
PrepareContentSets(gate, arch, content_sets, redhat, broker) ==
    IF ~gate
    THEN [res |-> GResult("none", "", "", ReturnFalse), invoked |-> <<>>]
    ELSE IF arch \notin DOMAIN content_sets
    THEN [res |-> GResult("CekitError", "no content sets for platform", "", NoReturn),
          invoked |-> <<>>]
    ELSE [res |-> HandleBroker(broker),
          invoked |-> <<BrokerCmd(redhat, JoinSpace(content_sets[arch]))>>]

NoBroker == [kind |-> "none", output |-> <<>>, captured |-> ""]

GenIdle ==
    gen = [op |-> "none", gate |-> FALSE, arch |-> "x86_64", content_sets |-> EmptyDict,
           redhat |-> FALSE, broker |-> NoBroker,
           res |-> GResult("none", "", "", NoReturn), invoked |-> <<>>]

CallPrepareContentSets ==
    /\ gen.op = "none"
    /\ \E gate \in BOOLEAN, arch \in Archs, content_sets \in {CS1, CS2, EmptyDict},
          redhat \in BOOLEAN, broker \in Brokers :
        LET r == PrepareContentSets(gate, arch, content_sets, redhat, broker)
        IN gen' = [op |-> "prepare_content_sets", gate |-> gate, arch |-> arch,
                   content_sets |-> content_sets, redhat |-> redhat, broker |-> broker,
                   res |-> r.res, invoked |-> r.invoked]
    /\ UNCHANGED <<rvars, pvars, avars>>

GenNext == CallPrepareContentSets

----------------------------------------------------------------------------
\* DockerGenerator.prepare_artifacts

MaxArtifacts == 3

ArtifactIds == {"a1", "a2", "a3"}

ArtifactLists == UNION {[1..n -> ArtifactIds] : n \in 0..MaxArtifacts}

\* os.path.join(self.target, 'image')
ImageDir == OsPathJoin(TargetDir, <<"image">>)

ArtIdle ==
    /\ arts = <<>>
    /\ apc = "idle"
    /\ ai = 0
    /\ acopies = <<>>
    /\ afailed = 0

\* the call: an image without artifacts returns at once, otherwise the for
\* loop starts at the first artifact
PrepareArtifacts ==
    /\ apc = "idle"
    /\ \E all_artifacts \in ArtifactLists :
        /\ arts' = all_artifacts
        /\ apc' = IF Len(all_artifacts) = 0 THEN "returned" ELSE "loop"
        /\ ai' = IF Len(all_artifacts) = 0 THEN 0 ELSE 1
    /\ acopies' = <<>>
    /\ afailed' = 0
    /\ UNCHANGED <<rvars, pvars, gvars>>

\* artifact.copy(target_dir) returns: the loop moves on, or ends after the last
ArtifactCopyReturns ==
    /\ apc = "loop"
    /\ acopies' = Append(acopies, [artifact |-> arts[ai], dir |-> ImageDir])
    /\ apc' = IF ai = Len(arts) THEN "returned" ELSE "loop"
    /\ ai' = IF ai = Len(arts) THEN ai ELSE ai + 1
    /\ UNCHANGED <<arts, afailed, rvars, pvars, gvars>>

\* a driver that swallows the failure and goes on with the next artifact
ArtifactCopyRaisesSwallowed ==
    /\ apc = "loop"
    /\ acopies' = Append(acopies, [artifact |-> arts[ai], dir |-> ImageDir])
    /\ afailed' = ai
    /\ apc' = IF ai = Len(arts) THEN "returned" ELSE "loop"
    /\ ai' = IF ai = Len(arts) THEN ai ELSE ai + 1
    /\ UNCHANGED <<arts, rvars, pvars, gvars>>

\* artifact.copy(target_dir) raises: nothing catches it, the call ends
ArtifactCopyRaises ==
    /\ apc = "loop"
    /\ acopies' = Append(acopies, [artifact |-> arts[ai], dir |-> ImageDir])
    /\ afailed' = ai
    /\ apc' = "raised"
    /\ UNCHANGED <<arts, ai, rvars, pvars, gvars>>

ArtNext ==
    \/ PrepareArtifacts
    \/ ArtifactCopyReturns
    \/ ArtifactCopyRaises

----------------------------------------------------------------------------
\* Specifications, one per component; the other components stay idle

RepoInit == RepoIdle /\ dirExists \in BOOLEAN /\ PkgIdle /\ GenIdle /\ ArtIdle

SpecRepo == RepoInit /\ [][RepoNext]_vars

PkgInit == RepoIdle /\ dirExists = FALSE /\ PkgIdle /\ GenIdle /\ ArtIdle

SpecPkg == PkgInit /\ [][PkgNext]_vars

GenInit == RepoIdle /\ dirExists = FALSE /\ PkgIdle /\ GenIdle /\ ArtIdle

SpecGen == GenInit /\ [][GenNext]_vars

ArtInit == RepoIdle /\ dirExists = FALSE /\ PkgIdle /\ GenIdle /\ ArtIdle

SpecArt == ArtInit /\ [][ArtNext]_vars

----------------------------------------------------------------------------
\* Properties

\* a source-kind field counts as populated when its key is in the backing
\* store and, for url, the structure is not the empty default
Populated(d, k) == Has(d, k) /\ (k = "url" => DOMAIN d[k] # {})

\* url.repository is a non-empty string
HasRepositoryUrl(d) ==
    /\ Has(d, "url")
    /\ Has(d["url"], "repository")
    /\ Truthy(d["url"]["repository"])

\* C1: constructing a Repository from a mapping succeeds iff exactly one of
\* id, url, rpm, odcs is a key of the mapping; every other number of keys
\* fails with the validation error that names the repository
C1_ConstructionIffExactlyOneKind ==
    (last.op = "init" /\ IsDict(last.arg)) =>
        LET n == Cardinality(DOMAIN last.arg \cap SourceKinds)
        IN /\ (rpc = "ok") <=> (n = 1)
           /\ (rpc = "failed") =>
                 last.res = Raised("CekitError", "invalid", last.arg["name"])

\* C2: in every state of a constructed Repository, after any setter calls,
\* exactly one of id, url, rpm, odcs is populated in the backing store;
\* read in the claim's favour: a state passes when exactly one key is in
\* the store, or when exactly one is populated with the empty url left out
C2_ExactlyOneSourceKind ==
    rpc = "ok" =>
        \/ Cardinality({k \in SourceKinds : Has(repo, k)}) = 1
        \/ Cardinality({k \in SourceKinds : Populated(repo, k)}) = 1

\* C3: the setter of a source kind k with value v leaves k = v, leaves the
\* other three kinds and filename absent from the store, and leaves name,
\* description and present as they were
C3_SourceKindSetterFrame ==
    last.op \in SourceKinds =>
        /\ Has(repo, last.op)
        /\ repo[last.op] = last.arg
        /\ \A k \in (SourceKinds \ {last.op}) \cup {"filename"} : ~Has(repo, k)
        /\ Frame(repo) = last.pre

\* C3 happens: id is set on a repository that held url, rpm, odcs, a
\* filename and a description
C3_Witness ==
    /\ last.op = "id"
    /\ last.arg = "i2"
    /\ {"url", "rpm", "odcs", "filename", "description"} \subseteq last.preKeys
    /\ Has(repo, "description")

\* C4: while no filename was supplied by the caller, reading filename right
\* after construction or right after a source-kind setter yields the name
\* with spaces replaced by underscores and suffixed .repo, never None
C4_FilenameDerivedOnRead ==
    (rpc = "ok" /\ ~explicit /\ last.op \in {"init"} \cup SourceKinds) =>
        FilenameGetter(repo) = DefaultFilename(NameGetter(repo))

\* C10: fetch on a repository whose url.repository is absent, null or empty
\* raises the configuration error naming the repository, makes no directory
\* and invokes no copy; otherwise the directory is made when missing and the
\* copy goes to target_dir/filename
C10_FetchWithoutUrlIsConfigurationError ==
    last.op = "fetch" =>
        IF ~HasRepositoryUrl(repo)
        THEN /\ last.res = Raised("CekitError", "not defined", NameGetter(repo))
             /\ ~last.mkdir
             /\ last.copied = <<>>
        ELSE /\ last.mkdir <=> ~last.dirBefore
             /\ dirExists
             /\ Len(last.copied) > 0 =>
                   last.copied[1].dest = OsPathJoin(TargetDir, FilenameGetter(repo))

\* C5: a mapping with both content_sets and content_sets_file never
\* constructs, and a constructed Packages holds at most one of the two keys
\* after any content_sets / content_sets_file setter calls
C5_ContentSetsMutuallyExclusive ==
    /\ (plast.op = "init" /\ Has(plast.arg, "content_sets")
                         /\ Has(plast.arg, "content_sets_file")) =>
          (ppc = "failed" /\ plast.res = Raised("CekitError", "together", <<>>))
    /\ ppc = "ok" => ~(Has(pkg, "content_sets") /\ Has(pkg, "content_sets_file"))

\* C5 happens: content_sets_file is set on a Packages that held content_sets
C5_Witness ==
    /\ ppc = "ok"
    /\ plast.op = "content_sets_file"
    /\ "content_sets" \in plast.pre
    /\ Has(pkg, "content_sets_file")

\* C6: with content_sets_file and no content_sets, a path that does not
\* exist fails with the file-not-found error before any Repository is
\* built; an existing file's parsed content is content_sets of the
\* constructed entity, and content_sets_file is gone from it
C6_ContentSetsFileLoaded ==
    (plast.op = "init" /\ Has(plast.arg, "content_sets_file")
                      /\ ~Has(plast.arg, "content_sets")) =>
        LET path == OsPathJoin(DescriptorPath, plast.arg["content_sets_file"])
        IN IF ~PathExists(plast.fs, path)
           THEN /\ ppc = "failed"
                /\ plast.res = Raised("CekitError", "file not found", path)
                /\ plast.invoked = 0
           ELSE ppc = "ok" =>
                /\ Has(pkg, "content_sets")
                /\ YamlLoadFile(plast.fs[path]).exc = "none"
                /\ pkg["content_sets"] = YamlLoadFile(plast.fs[path]).value
                /\ ~Has(pkg, "content_sets_file")

\* C6 happens: a Packages with repositories is constructed from an existing
\* content_sets_file
C6_Witness ==
    /\ plast.op = "init"
    /\ ppc = "ok"
    /\ Has(plast.arg, "content_sets_file")
    /\ Len(pkg["repositories"]) = MaxRepos

\* C7 as claimed: whenever the architecture has no entry in content_sets,
\* the call raises the configuration error and invokes no broker
C7_ArchAbsentAlwaysRaises ==
    (gen.op = "prepare_content_sets" /\ gen.arch \notin DOMAIN gen.content_sets) =>
        /\ gen.res.exc = "CekitError"
        /\ gen.res.msg = "no content sets for platform"
        /\ gen.invoked = <<>>

\* C7 amended: when the architecture has no entry in content_sets the broker
\* is never invoked; the call raises the configuration error when the gate
\* is on, and returns False when the gate is off
C7_ArchAbsentRaisesWhenGated ==
    (gen.op = "prepare_content_sets" /\ gen.arch \notin DOMAIN gen.content_sets) =>
        /\ gen.invoked = <<>>
        /\ gen.gate =>
              gen.res = GResult("CekitError", "no content sets for platform", "", NoReturn)
        /\ ~gen.gate => gen.res = GResult("none", "", "", ReturnFalse)

\* C7 happens: gate on, architecture absent, and a broker that would have
\* reported success
C7_Witness ==
    /\ gen.op = "prepare_content_sets"
    /\ gen.gate
    /\ gen.arch \notin DOMAIN gen.content_sets
    /\ gen.content_sets # EmptyDict
    /\ gen.broker.kind = "ok"
    /\ Len(gen.broker.output) = MaxLines

\* C8: for an architecture present in content_sets: gate off returns False
\* without the broker; a missing executable gives the not-installed error
\* naming odcs-client; a non-zero exit gives the error with the captured
\* output; state 2 returns result_repofile; another state raises the error
\* with state_reason, not the generic one; anything else is the generic
\* error; a repo file is returned for state 2 only
C8_OutcomeByGateAndBroker ==
    (gen.op = "prepare_content_sets" /\ gen.arch \in DOMAIN gen.content_sets) =>
        IF ~gen.gate
        THEN gen.res = GResult("none", "", "", ReturnFalse) /\ gen.invoked = <<>>
        ELSE LET b == gen.broker
                 y == YamlLoadReport(NormalizeOutput(b.output))
                 state == IF HasField(y, "state") THEN Field(y, "state") ELSE -1
             IN /\ Len(gen.invoked) = 1
                /\ b.kind = "OSError" =>
                      gen.res = GResult("CekitError", "ODCS is not installed",
                                        "odcs-client", NoReturn)
                /\ b.kind = "CalledProcessError" =>
                      gen.res = GResult("CekitError", "Cannot create content set",
                                        b.captured, NoReturn)
                /\ b.kind = "UnicodeDecodeError" => gen.res = GenericError
                /\ b.kind = "ok" =>
                      IF state = 2 /\ HasField(y, "result_repofile")
                      THEN gen.res = GResult("none", "", "",
                                             ReturnStr(Field(y, "result_repofile")))
                      ELSE IF state \notin {-1, 2} /\ HasField(y, "state_reason")
                      THEN /\ gen.res = GResult("CekitError", "Cannot create content set",
                                                Field(y, "state_reason"), NoReturn)
                           /\ gen.res # GenericError
                      ELSE gen.res = GenericError
                /\ gen.res.ret.kind = "str" => (b.kind = "ok" /\ state = 2)

\* C8 happens: the broker reports state 4 with a reason, in the legacy quoting
C8_Witness ==
    /\ gen.op = "prepare_content_sets"
    /\ gen.gate
    /\ gen.broker.kind = "ok"
    /\ gen.broker.output = <<Line("info", "", FALSE), Line("state", 4, FALSE),
                             Line("state_reason", "failed", TRUE)>>
    /\ gen.res.detail = "failed"

\* C9: no artifacts, no copy and a plain return; otherwise the copies are
\* invoked in declaration order, each with <target>/image, once each: all N
\* on a return, and none after (nor again for) the artifact whose copy
\* raised, whose failure ends the call
C9_CopiesInOrderUntilFailure ==
    apc # "idle" =>
        /\ Len(acopies) <= Len(arts)
        /\ \A i \in 1..Len(acopies) : acopies[i] = [artifact |-> arts[i], dir |-> ImageDir]
        /\ Len(arts) = 0 => (apc = "returned" /\ acopies = <<>>)
        /\ apc = "returned" => (Len(acopies) = Len(arts) /\ afailed = 0)
        /\ afailed # 0 => (apc = "raised" /\ Len(acopies) = afailed)
        /\ apc = "raised" => afailed # 0

\* C9 happens: the second of three artifacts fails
C9_Witness ==
    /\ apc = "raised"
    /\ Len(arts) = MaxArtifacts
    /\ afailed = 2
    /\ Len(acopies) = 2

====
